---- MODULE Spec2Model ----
(***************************************************************************)
(* UniversalSQLClient (src/client.py): a client that pre-validates a SQL   *)
(* query against an authorization server and then posts it to the SQL      *)
(* server.  Two caller threads share one client instance; each thread      *)
(* makes any number of execute_query calls, one after the other.           *)
(***************************************************************************)
EXTENDS Integers, Sequences, FiniteSets, TLC

VARIABLES
    self,        \* the client instance: api_key, auth_url, sql_server_url
    pc,          \* per thread: where its execute_query call stands
    query,       \* per thread: the query argument of the call in progress
    authReq,     \* per thread: the POST sent to the auth server in this call
    authResp,    \* per thread: what requests.post gave back at line 24
    sqlReq,      \* per thread: the POST sent to the SQL server in this call
    sqlResp,     \* per thread: what requests.post gave back at line 55
    decision,    \* per thread: how self._pre_validate(query) ended at line 47
    outcome,     \* per thread: how the call ended (return value or exception)
    authSent,    \* per thread: POSTs issued to the auth server in this call
    sqlSent,     \* per thread: POSTs issued to the SQL server in this call
    approvedBefore \* history: queries whose validation passed in a finished call

vars == <<self, pc, query, authReq, authResp, sqlReq, sqlResp, decision, outcome,
          authSent, sqlSent, approvedBefore>>

Threads == {1, 2}

\* Python's None, and the unset value of a per-call local.
None == [type |-> "None"]

-----------------------------------------------------------------------------
(* Inputs *)

Queries == {[query |-> "SELECT a FROM t"], [query |-> "SELECT b FROM u"]}

HTTP_OK == 200
HTTP_UNAUTHORIZED == 401
HTTP_FORBIDDEN == 403

\* One status of each class the code tells apart: 200, another 2xx, a 3xx,
\* 401, 403, and a 4xx/5xx the code does not name.
Statuses == {HTTP_OK, 204, 302, HTTP_UNAUTHORIZED, HTTP_FORBIDDEN, 500}

\* A response body as it is on the wire: text that is not JSON, a JSON array,
\* or a JSON object written as its sequence of members.
NotJson == [form |-> "text", members |-> <<>>]
JsonArray == [form |-> "array", members |-> <<>>]
JsonObject(ms) == [form |-> "object", members |-> ms]

\* Bodies the auth server may answer with: no JSON, JSON that is no object,
\* an object without the decision's field, a decision.
AuthBodies ==
    {NotJson, JsonArray, JsonObject(<<>>), JsonObject(<< <<"approved", 1>> >>)}

\* The longest JSON object among the SQL server's bodies.
MaxMembers == 2

\* The members a result object is written with; a name may come twice.
Members == {<<"rows", 1>>, <<"rows", 2>>}

\* Bodies the SQL server may answer a 200 with, and the body of its errors.
SqlBodies ==
    {NotJson, JsonArray}
        \cup {JsonObject(ms) : ms \in UNION {[1..n -> Members] : n \in 0..MaxMembers}}
ErrorBody == JsonObject(<< <<"error", 1>> >>)

\* Faults requests.post raises instead of giving a response.
Faults == {"ConnectionError", "Timeout"}

Response(status, body) == [type |-> "Response", status |-> status, body |-> body]
Fault(e) == [type |-> "Fault", exc |-> e]

-----------------------------------------------------------------------------
(* Values and exceptions *)

Returned(v) == [kind |-> "return", value |-> v]
Raised(exc, msg, cause) == [kind |-> "raise", exc |-> exc, msg |-> msg, cause |-> cause]

\* The classes of the requests library that are RequestExceptions.
RequestException == {"ConnectionError", "Timeout", "HTTPError", "JSONDecodeError"}

\* UnauthorizedError and MissingEntitlementsError come from .exceptions.
SdkErrors == {"UnauthorizedError", "MissingEntitlementsError"}

\* Whether the SDK's own errors derive from requests.RequestException: they
\* are failure kinds of their own, apart from the transport's.
SdkErrorsAreRequestExceptions == FALSE

\* isinstance(e, requests.RequestException), as the except clauses test it.
Caught(exc) ==
    \/ exc \in RequestException
    \/ exc \in SdkErrors /\ SdkErrorsAreRequestExceptions

\* The class response.json() raises on a body that is not JSON:
\* requests.JSONDecodeError (a RequestException) since requests 2.27,
\* a plain ValueError before.
JsonErrors == {"JSONDecodeError", "ValueError"}

RECURSIVE DictOf(_)
\* A JSON object's members as a Python dict: a later member replaces an
\* earlier one of the same name.
DictOf(ms) ==
    IF ms = <<>> THEN <<>>
    ELSE LET n == Len(ms)
             rest == DictOf(SubSeq(ms, 1, n - 1))
             k == ms[n][1]
         IN  [x \in (DOMAIN rest) \cup {k} |-> IF x = k THEN ms[n][2] ELSE rest[x]]

\* response.json(): the parsed body, or the error class je.
ResponseJson(body, je) ==
    CASE body.form = "text" -> Raised(je, "json", None)
      [] body.form = "array" -> Returned([type |-> "list"])
      [] body.form = "object" -> Returned([type |-> "dict", items |-> DictOf(body.members)])

\* AuthResponse(**d).
AuthResponse(d) ==
    IF d.type # "dict" THEN Raised("TypeError", "argument after ** must be a mapping", None)
    ELSE IF "approved" \notin DOMAIN d.items
         THEN Raised("ValidationError", "field required", None)
    ELSE Returned([type |-> "AuthResponse", approved |-> d.items["approved"]])

\* SQLQuery.dict().
Dict(q) == [type |-> "dict", items |-> q]

-----------------------------------------------------------------------------
(* The client's methods *)

Bearer(key) == <<"Authorization", <<"Bearer", key>> >>

\* Line 22-24: the validation request for query q.
ValidateRequest(q) ==
    [type |-> "Request",
     url |-> <<self.auth_url, "/validate-query/">>,
     json |-> Dict(q),
     headers |-> Bearer(self.api_key)]

\* query.dict(exclude_defaults=True) in place of line 39: the execution
\* request drops the fields the validation request carried.
serialize_query_exclude(q) == [type |-> "dict", items |-> <<>>]

\* Line 34-39.
serialize_query(q) == Dict(q)

\* self.query = query at line 47 and self.query.dict() at line 50: the query
\* kept on the shared client, so a call serializes the query that the thread
\* which entered last left there.
ExecuteRequest_sharedQuery(c) ==
    LET others == {d \in Threads \ {c} : pc[d] # "idle"}
        q == IF others = {} THEN query[c] ELSE query[CHOOSE d \in others : TRUE]
    IN  [type |-> "Request",
         url |-> <<self.sql_server_url, "/execute-query/">>,
         json |-> Dict(q),
         headers |-> <<"Authorization", <<"Bearer", self.api_key>> >>]

\* Line 50-55: the execution request.
ExecuteRequest(c) ==
    [type |-> "Request",
     url |-> <<self.sql_server_url, "/execute-query/">>,
     json |-> serialize_query(query[c]),
     headers |-> Bearer(self.api_key)]

\* A bare `except Exception:` in place of line 31.
AuthExcept_catchAll(e) ==
    Raised("Exception", "Failed to call local auth server", e)

\* `except requests.ConnectionError` in place of line 31.
AuthExcept_onlyConnectionError(e) ==
    IF e.exc = "ConnectionError"
    THEN Raised("Exception", "Failed to call local auth server", e)
    ELSE e

\* Line 31-32: what the except clause of _pre_validate makes of exception e.
AuthExcept(e) ==
    IF Caught(e.exc)
    THEN Raised("Exception", "Failed to call local auth server", e)
    ELSE e

\* `except Exception: return None` around line 29: a body that does not make
\* an AuthResponse is passed over.
pre_validate_lenient(r, je) ==
    IF r.type = "Fault"
    THEN Raised("Exception", "Failed to call local auth server", Raised(r.exc, "post", None))
    ELSE IF r.status = HTTP_UNAUTHORIZED
         THEN Raised("UnauthorizedError",
                     "Unauthorized access - check API key or permissions", None)
    ELSE IF r.status = HTTP_FORBIDDEN
         THEN Raised("MissingEntitlementsError",
                     "Missing entitlements - no permission for fields/datasets", None)
    ELSE IF r.body.form = "object" /\ "approved" \in DOMAIN DictOf(r.body.members)
         THEN Returned([type |-> "AuthResponse",
                        approved |-> DictOf(r.body.members)["approved"]])
    ELSE Returned(None)

\* Line 23-32: _pre_validate once requests.post has given r back.
pre_validate(r, je) ==
    IF r.type = "Fault" THEN AuthExcept(Raised(r.exc, "post", None))
    ELSE IF r.status = HTTP_UNAUTHORIZED
         THEN AuthExcept(Raised("UnauthorizedError",
                                "Unauthorized access - check API key or permissions", None))
    ELSE IF r.status = HTTP_FORBIDDEN
         THEN AuthExcept(Raised("MissingEntitlementsError",
                                "Missing entitlements - no permission for fields/datasets", None))
    ELSE LET j == ResponseJson(r.body, je)
         IN  IF j.kind = "raise" THEN AuthExcept(j)
             ELSE LET a == AuthResponse(j.value)
                  IN  IF a.kind = "raise" THEN AuthExcept(a) ELSE a

\* response.raise_for_status(): HTTPError for 4xx and 5xx, nothing otherwise.
raise_for_status(r) ==
    IF 400 <= r.status /\ r.status < 600
    THEN Raised("HTTPError", "status", [type |-> "status", status |-> r.status])
    ELSE Returned(None)

\* Line 60-61.
ExecExcept(e) ==
    IF Caught(e.exc)
    THEN Raised("Exception", "Failed to execute query", e)
    ELSE e

\* Line 57 without its `return`: the body is parsed and dropped.
execute_result_noReturn(r, je) ==
    IF r.type = "Fault" THEN Raised("Exception", "Failed to execute query",
                                    Raised(r.exc, "post", None))
    ELSE IF r.status = HTTP_OK
         THEN IF r.body.form = "text"
              THEN Raised(je, "json", None)
              ELSE Returned(None)
    ELSE Returned(None)

\* Line 54-61: the end of execute_query once requests.post has given r back.
execute_result(r, je) ==
    IF r.type = "Fault" THEN ExecExcept(Raised(r.exc, "post", None))
    ELSE IF r.status = HTTP_OK
         THEN LET j == ResponseJson(r.body, je)
              IN  IF j.kind = "raise" THEN ExecExcept(j) ELSE j
    ELSE LET h == raise_for_status(r)
         IN  IF h.kind = "raise" THEN ExecExcept(h) ELSE Returned(None)

-----------------------------------------------------------------------------
(* The state machine *)

Init ==
    /\ self = [api_key |-> "key", auth_url |-> "http://auth", sql_server_url |-> "http://sql"]
    /\ pc = [c \in Threads |-> "idle"]
    /\ query = [c \in Threads |-> None]
    /\ authReq = [c \in Threads |-> None]
    /\ authResp = [c \in Threads |-> None]
    /\ sqlReq = [c \in Threads |-> None]
    /\ sqlResp = [c \in Threads |-> None]
    /\ decision = [c \in Threads |-> None]
    /\ outcome = [c \in Threads |-> None]
    /\ authSent = [c \in Threads |-> 0]
    /\ sqlSent = [c \in Threads |-> 0]
    /\ approvedBefore = {}

\* Line 41-47, 22-24: thread c calls execute_query(q); the call enters
\* _pre_validate and posts the query to the auth server.
execute_query(c, q) ==
    /\ pc[c] = "idle"
    /\ query' = [query EXCEPT ![c] = q]
    /\ authReq' = [authReq EXCEPT ![c] = ValidateRequest(q)]
    /\ authSent' = [authSent EXCEPT ![c] = @ + 1]
    /\ pc' = [pc EXCEPT ![c] = "validating"]
    /\ UNCHANGED <<self, authResp, sqlReq, sqlResp, decision, outcome, sqlSent, approvedBefore>>

\* A retry loop around line 24: after a fault the validation request is
\* posted once more.
PreValidated_retry(c, r, je) ==
    /\ pc[c] = "validating"
    /\ authResp' = [authResp EXCEPT ![c] = r]
    /\ IF r.type = "Fault" /\ authSent[c] < 2
       THEN /\ authSent' = [authSent EXCEPT ![c] = @ + 1]
            /\ UNCHANGED <<pc, decision, outcome, sqlReq, sqlSent>>
       ELSE /\ decision' = [decision EXCEPT ![c] = Raised("Exception", "retry", None)]
            /\ outcome' = [outcome EXCEPT ![c] = Raised("Exception", "retry", None)]
            /\ pc' = [pc EXCEPT ![c] = "done"]
            /\ UNCHANGED <<authSent, sqlReq, sqlSent>>
    /\ UNCHANGED <<self, query, authReq, sqlResp, approvedBefore>>

\* Line 24-32, 47-55: requests.post at line 24 gives r back (a response or a
\* fault).  If _pre_validate raises, so does execute_query; if it returns,
\* execute_query serializes the query and posts it to the SQL server.
PreValidated(c, r, je) ==
    /\ pc[c] = "validating"
    /\ authResp' = [authResp EXCEPT ![c] = r]
    /\ LET v == pre_validate(r, je)
       IN  /\ decision' = [decision EXCEPT ![c] = v]
           /\ IF v.kind = "raise"
              THEN /\ outcome' = [outcome EXCEPT ![c] = v]
                   /\ pc' = [pc EXCEPT ![c] = "done"]
                   /\ UNCHANGED <<sqlReq, sqlSent>>
              ELSE /\ sqlReq' = [sqlReq EXCEPT ![c] = ExecuteRequest(c)]
                   /\ sqlSent' = [sqlSent EXCEPT ![c] = @ + 1]
                   /\ pc' = [pc EXCEPT ![c] = "executing"]
                   /\ UNCHANGED outcome
    /\ UNCHANGED <<self, query, authReq, sqlResp, authSent, approvedBefore>>

\* self.api_key = None after a rejected execution: the client drops a key
\* the SQL server refused.
Executed_dropsKey(c, r, je) ==
    /\ pc[c] = "executing"
    /\ sqlResp' = [sqlResp EXCEPT ![c] = r]
    /\ outcome' = [outcome EXCEPT ![c] = execute_result(r, je)]
    /\ pc' = [pc EXCEPT ![c] = "done"]
    /\ self' = IF r.type = "Response" /\ r.status = HTTP_UNAUTHORIZED
               THEN [self EXCEPT !.api_key = "None"]
               ELSE self
    /\ UNCHANGED <<query, authReq, authResp, sqlReq, decision, authSent, sqlSent,
                   approvedBefore>>

\* Line 55-61: requests.post at line 55 gives r back; execute_query ends.
Executed(c, r, je) ==
    /\ pc[c] = "executing"
    /\ sqlResp' = [sqlResp EXCEPT ![c] = r]
    /\ outcome' = [outcome EXCEPT ![c] = execute_result(r, je)]
    /\ pc' = [pc EXCEPT ![c] = "done"]
    /\ UNCHANGED <<self, query, authReq, authResp, sqlReq, decision, authSent, sqlSent,
                   approvedBefore>>

\* The caller has the result or the exception; the call's frame is gone and
\* the thread is free to call again.
CallEnds(c) ==
    /\ pc[c] = "done"
    /\ approvedBefore' = IF decision[c].kind = "return"
                         THEN approvedBefore \cup {query[c]}
                         ELSE approvedBefore
    /\ decision' = [decision EXCEPT ![c] = None]
    /\ pc' = [pc EXCEPT ![c] = "idle"]
    /\ query' = [query EXCEPT ![c] = None]
    /\ authReq' = [authReq EXCEPT ![c] = None]
    /\ authResp' = [authResp EXCEPT ![c] = None]
    /\ sqlReq' = [sqlReq EXCEPT ![c] = None]
    /\ sqlResp' = [sqlResp EXCEPT ![c] = None]
    /\ outcome' = [outcome EXCEPT ![c] = None]
    /\ authSent' = [authSent EXCEPT ![c] = 0]
    /\ sqlSent' = [sqlSent EXCEPT ![c] = 0]
    /\ UNCHANGED self

AuthReplies == {Response(s, b) : s \in Statuses, b \in AuthBodies} \cup {Fault(e) : e \in Faults}
SqlReplies ==
    {Response(HTTP_OK, b) : b \in SqlBodies}
        \cup {Response(s, ErrorBody) : s \in Statuses \ {HTTP_OK}}
        \cup {Fault(e) : e \in Faults}

Next ==
    \/ \E c \in Threads, q \in Queries : execute_query(c, q)
    \/ \E c \in Threads, r \in AuthReplies, je \in JsonErrors : PreValidated(c, r, je)
    \/ \E c \in Threads, r \in SqlReplies, je \in JsonErrors : Executed(c, r, je)
    \/ \E c \in Threads : CallEnds(c)

-----------------------------------------------------------------------------
(* Properties *)

Done(c) == pc[c] = "done"

\* The statuses the spec's response table reads as success: the 2xx range.
SuccessStatus(st) == 200 <= st /\ st < 300

\* The auth server answered r, and r is an approval.
Approval(r) == r.type = "Response" /\ SuccessStatus(r.status)

\* The auth server answered r with a status outside the success range.
NonSuccess(r) == r.type = "Response" /\ ~SuccessStatus(r.status)

\* Exception o was made from an HTTP error that carries status st.
CarriesStatus(o, st) ==
    /\ o.cause # None
    /\ o.cause.cause.type = "status"
    /\ o.cause.cause.status = st

\* C1: every POST to the SQL server is preceded, in the same call, by a
\* completed POST of the same query to the auth server that returned an
\* approval; a call whose validation failed has issued no execution request.
C1_ExecutionOnlyAfterApproval ==
    \A c \in Threads :
        /\ sqlSent[c] > 0 =>
              /\ authReq[c].type = "Request"
              /\ authReq[c].json = sqlReq[c].json
              /\ Approval(authResp[c])
        /\ (Done(c) /\ decision[c].kind = "raise") => sqlSent[c] = 0

\* C2: after a validation response whose status is outside the success
\* range, whatever its body, the call has issued no execution request.
C2_NoExecutionOnNonSuccess ==
    \A c \in Threads : NonSuccess(authResp[c]) => sqlSent[c] = 0

\* C3: a 401 from validation ends the call with UnauthorizedError and a 403
\* with MissingEntitlementsError, as raised (not wrapped into the generic
\* "Failed to call local auth server" exception), with no execution request.
C3_DenialsPropagateUnchanged ==
    \A c \in Threads :
        /\ (authResp[c].type = "Response" /\ authResp[c].status = HTTP_UNAUTHORIZED) =>
              /\ Done(c)
              /\ outcome[c] = Raised("UnauthorizedError",
                      "Unauthorized access - check API key or permissions", None)
              /\ sqlSent[c] = 0
        /\ (authResp[c].type = "Response" /\ authResp[c].status = HTTP_FORBIDDEN) =>
              /\ Done(c)
              /\ outcome[c] = Raised("MissingEntitlementsError",
                      "Missing entitlements - no permission for fields/datasets", None)
              /\ sqlSent[c] = 0

C3_Witness ==
    \E c, d \in Threads :
        /\ Done(c) /\ authResp[c].type = "Response" /\ authResp[c].status = HTTP_UNAUTHORIZED
        /\ Done(d) /\ authResp[d].type = "Response" /\ authResp[d].status = HTTP_FORBIDDEN

\* C4: after a successful validation, an execution response with any status
\* other than 200 ends the call with an exception that carries that status;
\* the call never returns normally.
C4_NonOkExecutionFails ==
    \A c \in Threads :
        (sqlResp[c].type = "Response" /\ sqlResp[c].status # HTTP_OK) =>
            /\ outcome[c].kind = "raise"
            /\ CarriesStatus(outcome[c], sqlResp[c].status)

\* The failure kind the caller can tell apart: the exception's class and the
\* fixed part of its message.
FailureKind(o) == <<o.exc, o.msg>>

\* The server answered r with a rejection status.
Rejected(r) == r.type = "Response" /\ r.status >= 400

\* C5: of two calls that fail at the same step, one on a rejection status
\* and one on a network fault, the callers see different failure kinds.
C5_RejectionDistinctFromFault ==
    \A c, d \in Threads :
        (Done(c) /\ Done(d) /\ outcome[c].kind = "raise" /\ outcome[d].kind = "raise") =>
            /\ (Rejected(sqlResp[c]) /\ sqlResp[d].type = "Fault") =>
                  FailureKind(outcome[c]) # FailureKind(outcome[d])
            /\ (Rejected(authResp[c]) /\ authResp[d].type = "Fault") =>
                  FailureKind(outcome[c]) # FailureKind(outcome[d])

\* C6: a validation response whose status is neither a success status nor
\* 401 nor 403 makes _pre_validate fail; it returns no decision.
C6_UnexpectedStatusFails ==
    \A c \in Threads :
        (NonSuccess(authResp[c])
            /\ authResp[c].status \notin {HTTP_UNAUTHORIZED, HTTP_FORBIDDEN}) =>
                decision[c].kind = "raise"

\* C7: a network fault during the validation request ends the call with the
\* generic exception that wraps the fault, which is neither UnauthorizedError
\* nor MissingEntitlementsError, and no execution request has been issued.
C7_ValidationFaultIsTransportError ==
    \A c \in Threads :
        authResp[c].type = "Fault" =>
            /\ Done(c)
            /\ outcome[c].kind = "raise"
            /\ outcome[c].exc = "Exception"
            /\ outcome[c].msg = "Failed to call local auth server"
            /\ outcome[c].cause.exc = authResp[c].exc
            /\ outcome[c].exc \notin SdkErrors
            /\ sqlSent[c] = 0
            /\ sqlReq[c].type = "None"

C7_Witness ==
    \E c \in Threads : Done(c) /\ authResp[c] = Fault("Timeout") /\ query[c] \in approvedBefore

\* The value a JSON body decodes to: a list for an array; for an object one
\* entry per member name, holding the value of the last member of that name.
Decodes(body, v) ==
    \/ body.form = "array" /\ v.type = "list"
    \/ /\ body.form = "object"
       /\ v.type = "dict"
       /\ DOMAIN v.items = {body.members[i][1] : i \in DOMAIN body.members}
       /\ \A i \in DOMAIN body.members :
              (\A j \in DOMAIN body.members : j > i => body.members[j][1] # body.members[i][1])
                  => v.items[body.members[i][1]] = body.members[i][2]

\* C8 as stated: whatever body B a 200 from the SQL server has, the call
\* returns B.
C8_OkBodyReturned ==
    \A c \in Threads :
        (sqlResp[c].type = "Response" /\ sqlResp[c].status = HTTP_OK) =>
            /\ outcome[c].kind = "return"
            /\ Decodes(sqlResp[c].body, outcome[c].value)

\* C8, amended: when the 200's body B is JSON, the call returns the value B
\* decodes to; when B is not JSON, the call raises and returns nothing.
C8_OkJsonBodyReturned ==
    \A c \in Threads :
        (sqlResp[c].type = "Response" /\ sqlResp[c].status = HTTP_OK) =>
            IF sqlResp[c].body.form = "text"
            THEN outcome[c].kind = "raise"
            ELSE /\ outcome[c].kind = "return"
                 /\ Decodes(sqlResp[c].body, outcome[c].value)

C8_Witness ==
    \E c \in Threads :
        /\ Done(c)
        /\ sqlResp[c] = Response(HTTP_OK, JsonObject(<< <<"rows", 1>>, <<"rows", 2>> >>))
        /\ outcome[c] = Returned([type |-> "dict", items |-> [k \in {"rows"} |-> 2]])

\* C9: each call's two requests carry that call's own query and the
\* client's credential, and each call ends the way the responses to its own
\* requests make it end, whatever the other thread's call is doing.
C9_CallsDoNotInterfere ==
    \A c \in Threads :
        /\ authReq[c].type = "Request" =>
              /\ authReq[c].json.items = query[c]
              /\ authReq[c].headers = <<"Authorization", <<"Bearer", self.api_key>> >>
        /\ sqlReq[c].type = "Request" =>
              /\ sqlReq[c].json.items = query[c]
              /\ sqlReq[c].headers = <<"Authorization", <<"Bearer", self.api_key>> >>
        /\ Done(c) =>
              \E je \in JsonErrors :
                  IF sqlReq[c].type = "Request"
                  THEN outcome[c] = execute_result(sqlResp[c], je)
                  ELSE outcome[c] = pre_validate(authResp[c], je)

C9_Witness ==
    /\ Done(1) /\ Done(2)
    /\ query[1] # query[2]
    /\ outcome[1].kind = "return" /\ outcome[2].kind = "return"
    /\ outcome[1] # outcome[2]

\* C10: a call in progress has issued exactly one validation request and at
\* most one execution request, the execution request only once the
\* validation request had been answered; nothing is posted again after a
\* failure status or a fault.
C10_AtMostTwoRequestsInOrder ==
    \A c \in Threads :
        /\ pc[c] = "idle" => authSent[c] = 0 /\ sqlSent[c] = 0
        /\ pc[c] # "idle" => authSent[c] = 1 /\ sqlSent[c] <= 1
        /\ pc[c] = "validating" => sqlSent[c] = 0
        /\ sqlSent[c] = 1 => authResp[c].type = "Response"
        /\ (authResp[c].type = "Fault" \/ sqlResp[c].type # "None") => Done(c)

C10_Witness ==
    \E c \in Threads :
        /\ Done(c) /\ sqlResp[c].type = "Fault"
        /\ authSent[c] = 1 /\ sqlSent[c] = 1

\* C11: within one call the body posted to /execute-query/ is the body that
\* was posted to /validate-query/, the serialization of the call's query, and
\* both requests carry Authorization: Bearer <api_key> of the client.
C11_ExecutedBodyIsValidatedBody ==
    \A c \in Threads :
        sqlReq[c].type = "Request" =>
            /\ authReq[c].type = "Request"
            /\ sqlReq[c].json = authReq[c].json
            /\ sqlReq[c].json = [type |-> "dict", items |-> query[c]]
            /\ sqlReq[c].headers = authReq[c].headers
            /\ sqlReq[c].headers = <<"Authorization", <<"Bearer", self.api_key>> >>
            /\ authReq[c].url = <<self.auth_url, "/validate-query/">>
            /\ sqlReq[c].url = <<self.sql_server_url, "/execute-query/">>

C11_Witness ==
    /\ sqlReq[1].type = "Request" /\ sqlReq[2].type = "Request"
    /\ sqlReq[1].json # sqlReq[2].json

\* Exception o comes from a body that response.json() could not decode.
JsonFailure(o) ==
    /\ o.kind = "raise"
    /\ \/ o.exc = "ValueError"
       \/ o.cause # None /\ o.cause.exc = "JSONDecodeError"

\* C12: the client's api_key, auth_url and sql_server_url are, in every
\* state, the ones it was constructed with, whatever calls have ended and
\* however; and two calls that got the same two responses have ended the
\* same way, whatever was called before them (a body that is not JSON fails
\* in both, with the class the installed requests raises).
C12_ClientIsStateless ==
    /\ self = [api_key |-> "key", auth_url |-> "http://auth", sql_server_url |-> "http://sql"]
    /\ \A c, d \in Threads :
          (Done(c) /\ Done(d) /\ authResp[c] = authResp[d] /\ sqlResp[c] = sqlResp[d]) =>
              \/ outcome[c] = outcome[d]
              \/ JsonFailure(outcome[c]) /\ JsonFailure(outcome[d])

\* Two finished calls with the same responses, one for a query an earlier
\* call had approved and one for a query never approved before, after a
\* rejection by the SQL server.
C12_Witness ==
    /\ Done(1) /\ Done(2)
    /\ authResp[1] = authResp[2] /\ sqlResp[1] = sqlResp[2]
    /\ sqlResp[1].type = "Response" /\ sqlResp[1].status = HTTP_UNAUTHORIZED
    /\ query[1] \in approvedBefore /\ query[2] \notin approvedBefore

\* The body makes an AuthorizationDecision: a JSON object with the
\* decision's field.
Parseable(body) ==
    /\ body.form = "object"
    /\ \E i \in DOMAIN body.members : body.members[i][1] = "approved"

\* C13: a validation response that is neither 401 nor 403 and whose body does
\* not make a decision ends _pre_validate with an exception and the call with
\* no execution request; an execution request is issued only after a decision
\* value was built from the validation response.
C13_UnparseableDecisionFails ==
    \A c \in Threads :
        /\ (authResp[c].type = "Response"
               /\ authResp[c].status \notin {HTTP_UNAUTHORIZED, HTTP_FORBIDDEN}
               /\ ~Parseable(authResp[c].body)) =>
              /\ Done(c)
              /\ decision[c].kind = "raise"
              /\ outcome[c] = decision[c]
              /\ sqlSent[c] = 0
        /\ sqlSent[c] > 0 =>
              /\ decision[c].kind = "return"
              /\ decision[c].value.type = "AuthResponse"
              /\ Parseable(authResp[c].body)

C13_Witness ==
    /\ Done(1) /\ authResp[1] = Response(HTTP_OK, NotJson)
    /\ Done(2) /\ authResp[2] = Response(HTTP_OK, JsonObject(<<>>))

Spec == Init /\ [][Next]_vars

====
